---------------------------- MODULE Spec2Model ----------------------------
(***************************************************************************)
(* A model of the fragrance finder server (src/unnamed/part_000): the      *)
(* price extractor, the note extractor, the query synthesizer, the page    *)
(* scraper and the two request pipelines /api/search and /api/find.        *)
(*                                                                         *)
(* A JavaScript string is a sequence of one-character strings.  The three  *)
(* characters that are not ASCII or not printable are written as named     *)
(* atoms (Euro, Pound, Tab, Newline).  null and undefined are the          *)
(* distinguished values Null and Undefined, which are not strings.         *)
(***************************************************************************)
EXTENDS Integers, Sequences, FiniteSets, TLC

VARIABLES
    priceText,      \* parsePrice: the argument text
    priceDone,      \* parsePrice: whether the call has returned
    priceResult,    \* parsePrice: the value returned
    qNotes,         \* buildPerfumeQueryFromNotes: the argument notes
    qDone,          \* buildPerfumeQueryFromNotes: whether it has returned
    qFirst,         \* buildPerfumeQueryFromNotes: q as first built (line 183)
    qResult,        \* buildPerfumeQueryFromNotes: the value returned
    reply,          \* ollamaNotesFromScene: the model's reply (data.response)
    notesPc,        \* ollamaNotesFromScene: "calling", "callFailed", "raised", "returned"
    notesParsed,    \* ollamaNotesFromScene: parsed, after the try block
    notesOut,       \* ollamaNotesFromScene: the note set returned
    scrapeUrl,      \* scrapeBasic: the argument url
    fetched,        \* scrapeBasic: what axios.get(url) and cheerio do
    scrapeDone,     \* scrapeBasic: whether the promise has settled
    scrapeResult,   \* scrapeBasic: the value the promise settled with
    route,          \* the request: "search" (/api/search) or "find" (/api/find)
    reqOk,          \* whether the request body passes the handler's validation
    reqNotes,       \* /api/search: the notes of the request body
    apiKey,         \* whether GOOGLE_API_KEY is set
    cseCx,          \* whether GOOGLE_CSE_CX is set
    pc,             \* the handler's position
    hNotes,         \* the handler's notes
    hQuery,         \* the handler's query
    results,        \* the handler's results (googleSearch's return value)
    scrapes,        \* the promises of results.map(r => scrapeBasic(r.link))
    response,       \* the response sent
    responses,      \* how many responses were sent
    modelCalls,     \* how many model requests were issued
    modelOutcome,   \* "none", "pending", "failed" or "ok"
    searchCalled,   \* how many times googleSearch was called
    searchRequests, \* how many search requests were issued
    searchOutcome,  \* "none", "threw", "pending", "failed" or "ok"
    scrapeLog,      \* the urls scrapeBasic was called with, in order
    outOfOrder      \* whether a scrape settled before one issued earlier

priceVars == <<priceText, priceDone, priceResult>>
queryVars == <<qNotes, qDone, qFirst, qResult>>
notesVars == <<reply, notesPc, notesParsed, notesOut>>
scrapeVars == <<scrapeUrl, fetched, scrapeDone, scrapeResult>>
requestVars == <<route, reqOk, reqNotes, apiKey, cseCx>>
handlerVars ==
    <<pc, hNotes, hQuery, results, scrapes, response, responses, modelCalls,
      modelOutcome, searchCalled, searchRequests, searchOutcome, scrapeLog,
      outOfOrder>>
pipelineVars == <<requestVars, handlerVars>>
functionVars == <<priceVars, queryVars, notesVars, scrapeVars>>

vars == <<priceVars, queryVars, notesVars, scrapeVars, pipelineVars>>

---------------------------------------------------------------------------
(* Values and strings *)

Null == <<"<null>">>
Undefined == <<"<undefined>">>

Dollar == "$"
Euro == "EUR"
Pound == "GBP"
Tab == "TAB"
Newline == "NL"

Digits == {"0", "1", "2", "3", "4", "5", "6", "7", "8", "9"}
Whitespace == {" ", Tab, Newline}

\* All sequences over S of length at most n.
SeqsUpTo(S, n) == UNION {[1..k -> S] : k \in 0..n}

\* String.prototype.replace(/\s+/g, ' ')
RECURSIVE CollapseWs(_)
CollapseWs(s) ==
    IF s = <<>> THEN <<>>
    ELSE IF Head(s) \in Whitespace
         THEN IF Len(s) > 1 /\ s[2] \in Whitespace
              THEN CollapseWs(Tail(s))
              ELSE <<" ">> \o CollapseWs(Tail(s))
         ELSE <<Head(s)>> \o CollapseWs(Tail(s))

RECURSIVE TrimStart(_)
TrimStart(s) ==
    IF s # <<>> /\ Head(s) \in Whitespace THEN TrimStart(Tail(s)) ELSE s

RECURSIVE TrimEnd(_)
TrimEnd(s) ==
    IF s # <<>> /\ s[Len(s)] \in Whitespace
    THEN TrimEnd(SubSeq(s, 1, Len(s) - 1))
    ELSE s

\* String.prototype.trim()
Trim(s) == TrimEnd(TrimStart(s))

\* String.prototype.replace(',', '.'): the first comma only.
RECURSIVE ReplaceFirstComma(_)
ReplaceFirstComma(s) ==
    IF s = <<>> THEN <<>>
    ELSE IF Head(s) = "," THEN <<".">> \o Tail(s)
         ELSE <<Head(s)>> \o ReplaceFirstComma(Tail(s))

\* Array.prototype.join: the strings of a with sep between them.
RECURSIVE Join(_, _)
Join(a, sep) ==
    IF a = <<>> THEN <<>>
    ELSE IF Len(a) = 1 THEN a[1]
         ELSE a[1] \o sep \o Join(Tail(a), sep)

\* Array.prototype.slice(0, n)
SliceTo(a, n) == SubSeq(a, 1, IF Len(a) < n THEN Len(a) ELSE n)

---------------------------------------------------------------------------
(* The parts of the state a specification does not use stay as they are. *)

PriceIdle == priceText = <<>> /\ priceDone = TRUE /\ priceResult = Null

EmptyNotes == [top |-> <<>>, middle |-> <<>>, base |-> <<>>]

QueryIdle ==
    qNotes = EmptyNotes /\ qDone = TRUE /\ qFirst = <<>> /\ qResult = <<>>

\* A JSON value as the note extractor reads it: its type and, for an array,
\* its elements; an element is a string s or a value that is no string.
JsonFalsyTypes == {"undefined", "null", "false", "zero", "emptyString"}
JsonOtherTypes == {"true", "number", "string", "object"}
JVal(type) == [t |-> type, arr |-> <<>>]
JArray(elems) == [t |-> "array", arr |-> elems]
JString(str) == [t |-> "string", s |-> str]
JNonString(type) == [t |-> type, s |-> <<>>]
\* An array of strings.
JStrings(strs) == JArray([i \in 1..Len(strs) |-> JString(strs[i])])

ParsedObject(top, middle, base) ==
    [isNull |-> FALSE, top |-> top, middle |-> middle, base |-> base]
ParsedNull ==
    [isNull |-> TRUE, top |-> JVal("undefined"), middle |-> JVal("undefined"),
     base |-> JVal("undefined")]
\* line 121: { top: [], middle: [], base: [] }
ParsedInitial == ParsedObject(JArray(<<>>), JArray(<<>>), JArray(<<>>))

\* A reply of the model: one whose parse target (its {...} block at the end,
\* or else the whole text) is valid JSON, given by the value it denotes, or
\* one that is not, given by its text.
JsonReply(kind, value, obj) ==
    [kind |-> kind, value |-> value, obj |-> obj, text |-> <<>>]
TextReply(text) ==
    [kind |-> "unparsable", value |-> "none", obj |-> ParsedInitial, text |-> text]

NotesIdle ==
    /\ reply = TextReply(<<>>)
    /\ notesPc = "idle"
    /\ notesParsed = ParsedInitial
    /\ notesOut = EmptyNotes

\* undefined where an array of strings is expected.
UndefinedArray == <<Undefined>>

\* What the fetch of a page and its parse come to: kind is "throws"
\* (axios.get rejects: network error, timeout), "noData" (the body is
\* absent or empty), "nonString" (the body is no string), "parseThrows"
\* (the body is a string and reading it raises) or "html", with the page.
EmptyPage ==
    [ogTitle |-> Undefined, titleText |-> <<>>, metaDesc |-> Undefined,
     ogDesc |-> Undefined, offers |-> <<>>, itemPrice |-> <<>>,
     classPrice |-> <<>>, idPrice |-> <<>>, body |-> <<>>,
     matches |-> [k \in 1..7 |-> <<>>], responseUrl |-> Undefined]
FetchFailure(kind, message) == [kind |-> kind, message |-> message, page |-> EmptyPage]
FetchedPage(page) == [kind |-> "html", message |-> <<>>, page |-> page]

\* { url, ok: false } and { url, ok: false, error }
ScrapeFailed(url, error) ==
    [url |-> url, ok |-> FALSE, title |-> Undefined, desc |-> Undefined,
     price |-> Undefined, notes |-> UndefinedArray, error |-> error]

ScrapeIdle ==
    /\ scrapeUrl = <<>>
    /\ fetched = FetchFailure("noData", <<>>)
    /\ scrapeDone = TRUE
    /\ scrapeResult = ScrapeFailed(<<>>, Undefined)

\* No response sent yet.
NoResponse ==
    [status |-> 0, error |-> "", hasNotes |-> FALSE, notes |-> EmptyNotes,
     hasQuery |-> FALSE, query |-> <<>>, hasSuggestions |-> FALSE,
     suggestions |-> <<>>]

PipelineIdle ==
    /\ route = "none" /\ reqOk = FALSE /\ reqNotes = EmptyNotes
    /\ apiKey = FALSE /\ cseCx = FALSE
    /\ pc = "done" /\ hNotes = EmptyNotes /\ hQuery = <<>>
    /\ results = <<>> /\ scrapes = <<>>
    /\ response = NoResponse /\ responses = 0
    /\ modelCalls = 0 /\ modelOutcome = "none"
    /\ searchCalled = 0 /\ searchRequests = 0 /\ searchOutcome = "none"
    /\ scrapeLog = <<>> /\ outOfOrder = FALSE

---------------------------------------------------------------------------
(* parsePrice *)

CurrencySymbols == {Dollar, Euro, Pound}

\* The number of digits of s from position i on.
RECURSIVE DigitRun(_, _)
DigitRun(s, i) ==
    IF i <= Len(s) /\ s[i] \in Digits THEN 1 + DigitRun(s, i + 1) ELSE 0

\* The value of a failed String.prototype.match (null), as a record.
NoMatch == [found |-> FALSE, m1 |-> <<>>, m2 |-> <<>>]

\* /(\$|E|P)\s?([0-9]+(?:[.,][0-9]{2})?)/ (E the euro, P the pound sign)
\* tried at position i of t: the groups of the match, or NoMatch.
PriceMatchAt(t, i) ==
    IF ~(i <= Len(t) /\ t[i] \in CurrencySymbols) THEN NoMatch
    ELSE LET k == IF i + 1 <= Len(t) /\ t[i + 1] \in Whitespace
                  THEN i + 2 ELSE i + 1
             n == DigitRun(t, k)
             d == k + n
             dec == /\ d + 2 <= Len(t)
                    /\ t[d] \in {".", ","}
                    /\ t[d + 1] \in Digits
                    /\ t[d + 2] \in Digits
         IN IF n = 0 THEN NoMatch
            ELSE [found |-> TRUE,
                  m1 |-> <<t[i]>>,
                  m2 |-> SubSeq(t, k, IF dec THEN d + 2 ELSE d - 1)]

\* String.prototype.match without the g flag: the leftmost position at
\* which the expression matches.
RECURSIVE PriceMatchFrom(_, _)
PriceMatchFrom(t, i) ==
    IF i > Len(t) THEN NoMatch
    ELSE IF PriceMatchAt(t, i).found THEN PriceMatchAt(t, i)
         ELSE PriceMatchFrom(t, i + 1)

\* parsePrice without the final replace(',', '.').
parsePriceKeepComma(text) ==
    IF text = <<>> THEN Null
    ELSE LET m == PriceMatchFrom(CollapseWs(text), 1)
         IN IF ~m.found THEN Null ELSE m.m1 \o m.m2

parsePrice(text) ==
    IF text = <<>> THEN Null
    ELSE LET m == PriceMatchFrom(CollapseWs(text), 1)
         IN IF ~m.found THEN Null
            ELSE ReplaceFirstComma(m.m1 \o m.m2)

MaxPriceTextLen == 5
PriceAlphabet == {Dollar, Euro, " ", Tab, "1", ".", ","}
PriceTexts(maxLen) == SeqsUpTo(PriceAlphabet, maxLen)

PriceInit ==
    /\ priceText \in PriceTexts(MaxPriceTextLen)
    /\ priceDone = FALSE
    /\ priceResult = Null
    /\ QueryIdle
    /\ NotesIdle
    /\ ScrapeIdle
    /\ PipelineIdle

ParsePriceCall ==
    /\ ~priceDone
    /\ priceDone' = TRUE
    /\ priceResult' = parsePrice(priceText)
    /\ UNCHANGED <<priceText, queryVars, notesVars, scrapeVars, pipelineVars>>

PriceNext == ParsePriceCall

SpecPrice == PriceInit /\ [][PriceNext]_vars

\* The occurrences of a price in the raw text t: a currency symbol at i, a
\* run of w whitespace characters (one space at most once whitespace runs
\* are collapsed), n >= 1 digits and, with dec, a '.' or ',' and two digits.
PriceOccurrences(t) ==
    {o \in [i : 1..Len(t), w : 0..Len(t), n : 1..Len(t), dec : BOOLEAN] :
        /\ t[o.i] \in CurrencySymbols
        /\ o.i + o.w + o.n + (IF o.dec THEN 3 ELSE 0) <= Len(t)
        /\ \A j \in (o.i + 1)..(o.i + o.w) : t[j] \in Whitespace
        /\ \A j \in (o.i + o.w + 1)..(o.i + o.w + o.n) : t[j] \in Digits
        /\ o.dec => /\ t[o.i + o.w + o.n + 1] \in {".", ","}
                    /\ t[o.i + o.w + o.n + 2] \in Digits
                    /\ t[o.i + o.w + o.n + 3] \in Digits}

OccurrenceLen(o) == o.n + (IF o.dec THEN 3 ELSE 0)

\* The symbol of occurrence o of t followed at once by its amount, the
\* decimal separator written '.'.
RenderedPrice(t, o) ==
    <<t[o.i]>> \o
    [j \in 1..OccurrenceLen(o) |->
        IF t[o.i + o.w + j] = "," THEN "." ELSE t[o.i + o.w + j]]

\* C6: parsePrice returns null exactly when the text holds no price
\* occurrence; otherwise it returns the leftmost occurrence (the longest one
\* starting there), rendered as symbol plus amount with '.' as the decimal
\* separator, so the result holds no whitespace and no comma.
C6_LeftmostPrice ==
    priceDone =>
        LET occs == PriceOccurrences(priceText)
        IN IF occs = {} THEN priceResult = Null
           ELSE /\ priceResult # Null
                /\ \E o \in occs :
                      /\ \A p \in occs : o.i <= p.i
                      /\ \A p \in occs :
                            p.i = o.i => OccurrenceLen(p) <= OccurrenceLen(o)
                      /\ priceResult = RenderedPrice(priceText, o)
                /\ \A k \in 1..Len(priceResult) :
                      priceResult[k] \notin Whitespace \cup {","}

\* A text with two prices, the first with whitespace between its symbol
\* and its amount, has been parsed.
C6_Witness ==
    /\ priceDone
    /\ \E o, p \in PriceOccurrences(priceText) :
          /\ o.i < p.i
          /\ \A q \in PriceOccurrences(priceText) : o.i <= q.i
          /\ o.w >= 1
    /\ priceResult # Null

---------------------------------------------------------------------------
(* buildPerfumeQueryFromNotes *)

PerfumeWithPrice ==
    <<"p", "e", "r", "f", "u", "m", "e", " ", "w", "i", "t", "h", " ",
      "p", "r", "i", "c", "e">>
Perfume == <<"p", "e", "r", "f", "u", "m", "e">>

NotesPerBucketInQuery == 3
QueryMinLength == 10

\* Lines 180-184: q as first built.  A bucket of a note set is an array, so
\* (notes.top || []) is the bucket itself.
QueryFirstBuilt(notes) ==
    LET top == Join(SliceTo(notes.top, NotesPerBucketInQuery), <<" ">>)
        mid == Join(SliceTo(notes.middle, NotesPerBucketInQuery), <<" ">>)
        base == Join(SliceTo(notes.base, NotesPerBucketInQuery), <<" ">>)
    IN Trim(CollapseWs(top \o <<" ">> \o mid \o <<" ">> \o base
                       \o <<" ">> \o PerfumeWithPrice))

\* Line 185's replacement: an array is truthy even when empty, so
\* (notes.middle || notes.top || notes.base || []) is notes.middle.
QueryFallback(notes) == Join(notes.middle, <<" ">>) \o <<" ">> \o Perfume

\* buildPerfumeQueryFromNotes measuring the notes alone, before the phrase
\* is appended.
buildQueryMeasuringNotes(notes) ==
    LET n == Trim(CollapseWs(
                Join(SliceTo(notes.top, NotesPerBucketInQuery), <<" ">>)
                \o <<" ">> \o
                Join(SliceTo(notes.middle, NotesPerBucketInQuery), <<" ">>)
                \o <<" ">> \o
                Join(SliceTo(notes.base, NotesPerBucketInQuery), <<" ">>)))
    IN IF Len(n) < QueryMinLength THEN QueryFallback(notes)
       ELSE QueryFirstBuilt(notes)

\* buildPerfumeQueryFromNotes joining each bucket whole.
buildQueryWholeBuckets(notes) ==
    Trim(CollapseWs(Join(notes.top, <<" ">>) \o <<" ">>
                    \o Join(notes.middle, <<" ">>) \o <<" ">>
                    \o Join(notes.base, <<" ">>) \o <<" ">>
                    \o PerfumeWithPrice))

buildPerfumeQueryFromNotes(notes) ==
    LET q == QueryFirstBuilt(notes)
    IN IF Len(q) < QueryMinLength THEN QueryFallback(notes) ELSE q

MaxBucketLen == 4
\* Note entries as a note set holds them: trimmed and not empty; one has a
\* run of whitespace inside.
QueryEntries == {<<"a">>, <<"b", "c">>, <<"d", " ", Tab, "e">>, <<"f">>}

IsInjective(a) == \A i, j \in 1..Len(a) : a[i] = a[j] => i = j

QueryBuckets(maxLen) == {a \in SeqsUpTo(QueryEntries, maxLen) : IsInjective(a)}

MaxQueryNotes == 5
QueryNoteSets(maxLen, maxNotes) ==
    LET B == QueryBuckets(maxLen)
    IN {n \in [top : B, middle : B, base : B] :
          Len(n.top) + Len(n.middle) + Len(n.base) <= maxNotes}

QueryInit ==
    /\ qNotes \in QueryNoteSets(MaxBucketLen, MaxQueryNotes)
    /\ qDone = FALSE
    /\ qFirst = <<>>
    /\ qResult = <<>>
    /\ PriceIdle
    /\ NotesIdle
    /\ ScrapeIdle
    /\ PipelineIdle

BuildQueryCall ==
    /\ ~qDone
    /\ qDone' = TRUE
    /\ qFirst' = QueryFirstBuilt(qNotes)
    /\ qResult' = buildPerfumeQueryFromNotes(qNotes)
    /\ UNCHANGED <<qNotes, priceVars, notesVars, scrapeVars, pipelineVars>>

QueryNext == BuildQueryCall

SpecQuery == QueryInit /\ [][QueryNext]_vars

\* The words of s: its maximal runs of characters that are not whitespace.
RECURSIVE Words(_)
Words(s) ==
    LET t == TrimStart(s)
        RECURSIVE WordLen(_)
        WordLen(i) ==
            IF i <= Len(t) /\ t[i] \notin Whitespace THEN WordLen(i + 1) ELSE i - 1
    IN IF t = <<>> THEN <<>>
       ELSE <<SubSeq(t, 1, WordLen(1))>>
            \o Words(SubSeq(t, WordLen(1) + 1, Len(t)))

\* The words of the first at most three entries of bucket b, in order.
RECURSIVE BucketWords(_, _)
BucketWords(b, k) ==
    IF k = 0 \/ b = <<>> THEN <<>>
    ELSE Words(Head(b)) \o BucketWords(Tail(b), k - 1)

SingleSpaced(s) ==
    /\ \A i \in 1..Len(s) : s[i] \in Whitespace => s[i] = " "
    /\ \A i \in 1..(Len(s) - 1) : ~(s[i] = " " /\ s[i + 1] = " ")
    /\ s # <<>> => s[1] # " " /\ s[Len(s)] # " "

\* C5: the query is not empty and is made of the words of the first at
\* most 3 entries of top, then of middle, then of base, each in its original
\* order, then "perfume with price", with single spaces between the words
\* and none at either end; a bucket's entries beyond its third do not appear.
C5_QueryShape ==
    qDone =>
        /\ qResult # <<>>
        /\ SingleSpaced(qResult)
        /\ Words(qResult) = BucketWords(qNotes.top, 3)
                             \o BucketWords(qNotes.middle, 3)
                             \o BucketWords(qNotes.base, 3)
                             \o <<<<"p", "e", "r", "f", "u", "m", "e">>,
                                  <<"w", "i", "t", "h">>,
                                  <<"p", "r", "i", "c", "e">>>>

\* A query has been built from a note set whose top bucket holds more than
\* three entries, one of the first three with a whitespace run inside, and
\* whose middle bucket is not empty.
C5_Witness ==
    /\ qDone
    /\ Len(qNotes.top) > 3 /\ qNotes.middle # <<>>
    /\ qNotes.top[2] = <<"d", " ", Tab, "e">>
    /\ qResult # <<>>

AllBucketsEmpty(notes) ==
    notes.top = <<>> /\ notes.middle = <<>> /\ notes.base = <<>>

\* C8 as stated: for an all-empty note set the string first built is shorter
\* than 10 characters and the fallback form "<bucket> perfume" is returned.
C8_Original ==
    (qDone /\ AllBucketsEmpty(qNotes)) =>
        /\ Len(qFirst) < 10
        /\ qResult = Join(qNotes.middle, <<" ">>) \o <<" ">> \o Perfume

\* C8 amended: for an all-empty note set the string first built is
\* "perfume with price", 18 characters and so not shorter than 10; the
\* fallback branch is not taken and "perfume with price" is returned.
C8_EmptyNotesQuery ==
    (qDone /\ AllBucketsEmpty(qNotes)) =>
        /\ qFirst = PerfumeWithPrice
        /\ Len(qFirst) = 18
        /\ ~(Len(qFirst) < 10)
        /\ qResult = PerfumeWithPrice

\* The query of the all-empty note set has been built.
C8_Witness == qDone /\ AllBucketsEmpty(qNotes) /\ qResult # <<>>

---------------------------------------------------------------------------
(* ollamaNotesFromScene *)

UpperLetters ==
    <<"A", "B", "C", "D", "E", "F", "G", "H", "I", "J", "K", "L", "M",
      "N", "O", "P", "Q", "R", "S", "T", "U", "V", "W", "X", "Y", "Z">>
LowerLetters ==
    <<"a", "b", "c", "d", "e", "f", "g", "h", "i", "j", "k", "l", "m",
      "n", "o", "p", "q", "r", "s", "t", "u", "v", "w", "x", "y", "z">>

ToLowerChar(c) ==
    IF \E i \in 1..26 : UpperLetters[i] = c
    THEN LowerLetters[CHOOSE i \in 1..26 : UpperLetters[i] = c]
    ELSE c

\* String.prototype.toLowerCase()
ToLowerCase(str) == [i \in 1..Len(str) |-> ToLowerChar(str[i])]

\* The first position of s from i on that holds a character of set C, or 0.
RECURSIVE IndexOfAny(_, _, _)
IndexOfAny(str, C, i) ==
    IF i > Len(str) THEN 0
    ELSE IF str[i] \in C THEN i ELSE IndexOfAny(str, C, i + 1)

\* The first position of s from i on that holds no character of set C, or
\* Len(s) + 1.
RECURSIVE SkipAll(_, _, _)
SkipAll(str, C, i) ==
    IF i <= Len(str) /\ str[i] \in C THEN SkipAll(str, C, i + 1) ELSE i

\* String.prototype.split(/\n+/)
RECURSIVE SplitLines(_)
SplitLines(str) ==
    LET i == IndexOfAny(str, {Newline}, 1)
    IN IF i = 0 THEN <<str>>
       ELSE <<SubSeq(str, 1, i - 1)>>
            \o SplitLines(SubSeq(str, SkipAll(str, {Newline}, i), Len(str)))

\* String.prototype.split(',')
RECURSIVE SplitCommas(_)
SplitCommas(str) ==
    LET i == IndexOfAny(str, {","}, 1)
    IN IF i = 0 THEN <<str>>
       ELSE <<SubSeq(str, 1, i - 1)>>
            \o SplitCommas(SubSeq(str, i + 1, Len(str)))

\* String.prototype.includes(k)
Includes(str, k) ==
    \E i \in 1..(Len(str) - Len(k) + 1) : SubSeq(str, i, i + Len(k) - 1) = k

\* lines.findIndex(l => l.includes(k)), counted from 1; 0 when there is none.
FindLine(lines, k) ==
    IF \E i \in 1..Len(lines) : Includes(lines[i], k)
    THEN CHOOSE i \in 1..Len(lines) :
            /\ Includes(lines[i], k)
            /\ \A j \in 1..(i - 1) : ~Includes(lines[j], k)
    ELSE 0

IsNoteChar(c) == c = "," \/ c = " " \/ \E i \in 1..26 : LowerLetters[i] = c
IsNonEmpty(str) == str # <<>>

\* .map(s => s.trim())
TrimEach(a) == [i \in 1..Len(a) |-> Trim(a[i])]

HeuristicMaxNotes == 6

\* Lines 133-138: bucket(k) of the fallback.
HeuristicBucket(lines, k) ==
    LET i == FindLine(lines, k)
    IN IF i = 0 THEN <<>>
       ELSE LET rest == SelectSeq(Join(SubSeq(lines, i + 1, Len(lines)), <<" ">>),
                                  IsNoteChar)
            IN SliceTo(SelectSeq(TrimEach(SplitCommas(rest)), IsNonEmpty),
                       HeuristicMaxNotes)

KeyTop == <<"t", "o", "p">>
KeyMiddle == <<"m", "i", "d", "d", "l", "e">>
KeyBase == <<"b", "a", "s", "e">>

\* Lines 117-144: parsed after the try block.  JSON.parse of the matched
\* block yields an object, JSON.parse of a whole text that has no such
\* block yields a value that is no object, and both raise for a text of an
\* unparsable reply, which the catch block then reads line by line.
ParseReply(r) ==
    IF r.kind = "jsonBlock" THEN r.obj
    ELSE IF r.kind = "jsonWhole"
         THEN IF r.value = "null" THEN ParsedNull
              ELSE ParsedObject(JVal("undefined"), JVal("undefined"),
                                JVal("undefined"))
    ELSE LET text == Trim(r.text)
             lines == SplitLines(ToLowerCase(text))
         IN ParsedObject(JStrings(HeuristicBucket(lines, KeyTop)),
                         JStrings(HeuristicBucket(lines, KeyMiddle)),
                         JStrings(HeuristicBucket(lines, KeyBase)))

\* Array.from(new Set(a)): a without the later occurrences of its entries.
RECURSIVE DedupeInto(_, _, _)
DedupeInto(a, i, seen) ==
    IF i > Len(a) THEN seen
    ELSE DedupeInto(a, i + 1,
                    IF \E j \in 1..Len(seen) : seen[j] = a[i] THEN seen
                    ELSE Append(seen, a[i]))

Dedupe(a) == DedupeInto(a, 1, <<>>)

MaxNotesPerBucket == 8

\* Whether norm(v) raises a TypeError: v is truthy and no array (it has no
\* map method), or an entry of v is no string (it has no toLowerCase).
NormRaises(v) ==
    /\ v.t \notin JsonFalsyTypes
    /\ \/ v.t # "array"
       \/ \E i \in 1..Len(v.arr) : v.arr[i].t # "string"

\* norm deduplicating the entries as they are, before lower-casing and
\* trimming them.
NormDedupeFirst(v) ==
    IF v.t \in JsonFalsyTypes THEN <<>>
    ELSE LET raw == Dedupe([i \in 1..Len(v.arr) |-> v.arr[i].s])
             mapped == [i \in 1..Len(raw) |-> Trim(ToLowerCase(raw[i]))]
         IN SliceTo(SelectSeq(mapped, IsNonEmpty), MaxNotesPerBucket)

\* Line 147: the value of norm(v) when it does not raise.
Norm(v) ==
    IF v.t \in JsonFalsyTypes THEN <<>>
    ELSE LET mapped == [i \in 1..Len(v.arr) |-> Trim(ToLowerCase(v.arr[i].s))]
         IN SliceTo(SelectSeq(Dedupe(mapped), IsNonEmpty), MaxNotesPerBucket)

\* Lines 117-152: what ollamaNotesFromScene does with the reply r of a model
\* call that succeeded.  Reading parsed.top raises when parsed is null.
ollamaNotesFromScene(r) ==
    LET parsed == ParseReply(r)
        raises == \/ parsed.isNull
                  \/ NormRaises(parsed.top)
                  \/ NormRaises(parsed.middle)
                  \/ NormRaises(parsed.base)
    IN [raised |-> raises,
        parsed |-> parsed,
        notes |-> IF raises THEN EmptyNotes
                  ELSE [top |-> Norm(parsed.top),
                        middle |-> Norm(parsed.middle),
                        base |-> Norm(parsed.base)]]

MaxJsonArrayLen == 3
MaxReplyTokens == 4

JsonElems ==
    {JString(str) : str \in {<<"a">>, <<"A">>, <<" ", "a", Tab>>, <<>>, <<" ">>,
                            <<"b">>}}
    \cup {JNonString("number"), JNonString("null")}

\* An array with more than 8 different notes and some repeated ones.
LongNoteArray ==
    <<<<"a">>, <<"B">>, <<"c">>, <<"A", " ">>, <<"d">>, <<"e">>, <<"f">>,
      <<>>, <<"g">>, <<"h">>, <<"b">>, <<"i">>, <<"j">>>>

RichBuckets(maxLen) ==
    {JVal(type) : type \in JsonFalsyTypes \cup JsonOtherTypes}
    \cup {JArray(e) : e \in SeqsUpTo(JsonElems, maxLen)}
    \cup {JStrings(SubSeq(LongNoteArray, i, j)) :
             i \in 1..Len(LongNoteArray), j \in 1..Len(LongNoteArray)}

PlainBuckets ==
    {JVal("undefined"), JStrings(<<<<"B">>, <<"b">>>>), JVal("string")}

\* The objects a reply can denote: one bucket of any shape, the two others
\* of a few.
ReplyObject(rich, b, c, place) ==
    IF place = 1 THEN ParsedObject(rich, b, c)
    ELSE IF place = 2 THEN ParsedObject(b, rich, c)
    ELSE ParsedObject(b, c, rich)

JsonWholeValues == {"null", "true", "false", "number", "string", "array"}

\* The tokens the texts of unparsable replies are made of: with no digit,
\* quote, bracket or JSON literal, none of these texts is valid JSON.
ReplyTokens ==
    {<<"T", "o", "p">>, KeyMiddle, KeyBase, <<"R", "o", "s", "e">>,
     <<"m", "u", "s", "k">>, <<",">>, <<" ">>, <<Newline>>}

RECURSIVE Flatten(_)
Flatten(a) == IF a = <<>> THEN <<>> ELSE Head(a) \o Flatten(Tail(a))

ReplyTexts(maxTokens) == {Flatten(a) : a \in SeqsUpTo(ReplyTokens, maxTokens)}

NotesInit ==
    /\ reply = TextReply(<<>>)
    /\ notesPc = "calling"
    /\ notesParsed = ParsedInitial
    /\ notesOut = EmptyNotes
    /\ PriceIdle
    /\ QueryIdle
    /\ ScrapeIdle
    /\ PipelineIdle

\* Line 116: the model call fails and the error propagates to the caller.
OllamaCallFails ==
    /\ notesPc = "calling"
    /\ notesPc' = "callFailed"
    /\ UNCHANGED <<reply, notesParsed, notesOut, priceVars, queryVars, scrapeVars, pipelineVars>>

\* Lines 116-152: the model call returns reply r, which is parsed and
\* normalized.
OllamaCallReturns(r) ==
    /\ reply' = r
    /\ notesParsed' = ollamaNotesFromScene(r).parsed
    /\ notesOut' = ollamaNotesFromScene(r).notes
    /\ notesPc' = IF ollamaNotesFromScene(r).raised THEN "raised" ELSE "returned"
    /\ UNCHANGED <<priceVars, queryVars, scrapeVars, pipelineVars>>

\* The reply ends with a {...} block that is valid JSON.
ReplyWithJsonBlock ==
    /\ notesPc = "calling"
    /\ \E rich \in RichBuckets(MaxJsonArrayLen), b, c \in PlainBuckets, place \in 1..3 :
          OllamaCallReturns(JsonReply("jsonBlock", "object",
                                      ReplyObject(rich, b, c, place)))

\* The reply has no such block and is valid JSON as a whole.
ReplyWithJsonValue ==
    /\ notesPc = "calling"
    /\ \E v \in JsonWholeValues :
          OllamaCallReturns(JsonReply("jsonWhole", v, ParsedInitial))

\* The reply is no valid JSON.
ReplyWithText ==
    /\ notesPc = "calling"
    /\ \E text \in ReplyTexts(MaxReplyTokens) : OllamaCallReturns(TextReply(text))

NotesNext ==
    OllamaCallFails \/ ReplyWithJsonBlock \/ ReplyWithJsonValue \/ ReplyWithText

SpecNotes == NotesInit /\ [][NotesNext]_vars

\* C3 as stated: once the model call has succeeded, ollamaNotesFromScene
\* never raises, whatever the reply is: it resolves to a note set.
C3_NeverRaises == notesPc # "raised"

IsLowerCased(str) ==
    \A k \in 1..Len(str) : \A i \in 1..26 : str[k] # UpperLetters[i]
IsTrimmed(str) ==
    str = <<>> \/ (str[1] \notin Whitespace /\ str[Len(str)] \notin Whitespace)

\* The entries of parsed bucket v, lower-cased and trimmed.
ParsedEntries(v) ==
    IF v.t = "array"
    THEN [i \in 1..Len(v.arr) |-> Trim(ToLowerCase(v.arr[i].s))]
    ELSE <<>>

FirstIndex(P, x) ==
    CHOOSE i \in 1..Len(P) : P[i] = x /\ \A j \in 1..(i - 1) : P[j] # x

\* out holds the different entries of P in the order of their first
\* occurrence in P, each once, and all of them or else the first cap.
KeepsFirstDistinct(out, P, cap) ==
    /\ Len(out) <= cap
    /\ \A k, l \in 1..Len(out) : out[k] = out[l] => k = l
    /\ \A k \in 1..Len(out) : \E i \in 1..Len(P) : P[i] = out[k]
    /\ \A k, l \in 1..Len(out) :
          k < l => FirstIndex(P, out[k]) < FirstIndex(P, out[l])
    /\ \A i \in 1..Len(P) :
          (\A k \in 1..Len(out) : out[k] # P[i])
             => Len(out) = cap /\ FirstIndex(P, out[cap]) < i

NormalizedFrom(out, v) ==
    /\ \A k \in 1..Len(out) :
          out[k] # <<>> /\ IsLowerCased(out[k]) /\ IsTrimmed(out[k])
    /\ KeepsFirstDistinct(out, SelectSeq(ParsedEntries(v), IsNonEmpty), 8)

\* C4: in every note set returned, whichever path parsed the reply, each
\* bucket holds at most 8 entries, all lower-cased, trimmed and not empty,
\* none twice, in the order of their first occurrence in the parsed bucket;
\* an entry of the parsed bucket is left out only by the cap of 8, which
\* keeps the first 8.
C4_NormalizedBuckets ==
    notesPc = "returned" =>
        /\ NormalizedFrom(notesOut.top, notesParsed.top)
        /\ NormalizedFrom(notesOut.middle, notesParsed.middle)
        /\ NormalizedFrom(notesOut.base, notesParsed.base)

\* A note set was returned whose top bucket was cut to 8 entries, from a
\* parsed bucket with repeated, padded and empty entries.
C4_Witness ==
    /\ notesPc = "returned"
    /\ Len(notesOut.top) = 8
    /\ Len(notesParsed.top.arr) > 10
    /\ \E i \in 1..Len(notesParsed.top.arr) : notesParsed.top.arr[i].s = <<>>

---------------------------------------------------------------------------
(* scrapeBasic *)

\* a || b for strings: b when a is undefined, null or empty.
OrElse(a, b) == IF a \in {Undefined, Null, <<>>} THEN b ELSE a

\* Lines 62-74: the first candidate text, in order, in which parsePrice
\* finds a price; empty candidates are filtered out.
RECURSIVE FirstPrice(_)
FirstPrice(candidates) ==
    IF candidates = <<>> THEN Null
    ELSE IF Head(candidates) # <<>> /\ parsePrice(Head(candidates)) # Null
         THEN parsePrice(Head(candidates))
         ELSE FirstPrice(Tail(candidates))

\* The selectors of noteSelectors, by position.
NoteSelectorCount == 7
NoteTextLimit == 60
MaxScrapedNotes == 20

IsShortNote(t) == t # <<>> /\ Len(t) < NoteTextLimit

\* Lines 88-91: the texts one selector's matched elements push on notes.
PushedNotes(texts) == SelectSeq(TrimEach(texts), IsShortNote)

\* The loop of lines 87-93 leaving at the first selector that matches an
\* element, whatever it pushed.
RECURSIVE NotesFromFirstMatching(_, _)
NotesFromFirstMatching(matches, k) ==
    IF k > NoteSelectorCount THEN <<>>
    ELSE IF matches[k] # <<>> THEN PushedNotes(matches[k])
         ELSE NotesFromFirstMatching(matches, k + 1)

\* Lines 87-93: the loop over noteSelectors from selector k on, notes being
\* empty so far; it leaves once notes is not empty.
RECURSIVE CollectNotes(_, _)
CollectNotes(matches, k) ==
    IF k > NoteSelectorCount THEN <<>>
    ELSE IF PushedNotes(matches[k]) # <<>> THEN PushedNotes(matches[k])
         ELSE CollectNotes(matches, k + 1)

scrapeBasic(url, f) ==
    IF f.kind \in {"throws", "parseThrows"} THEN ScrapeFailed(url, f.message)
    ELSE IF f.kind \in {"noData", "nonString"} THEN ScrapeFailed(url, Undefined)
    ELSE LET page == f.page
         IN [url |-> OrElse(page.responseUrl, url),
             ok |-> TRUE,
             title |-> OrElse(page.ogTitle, Trim(page.titleText)),
             desc |-> OrElse(page.metaDesc, OrElse(page.ogDesc, <<>>)),
             price |-> FirstPrice(<<page.offers, page.itemPrice, page.classPrice,
                                    page.idPrice, page.body>>),
             notes |-> SliceTo(Dedupe(CollectNotes(page.matches, 1)),
                               MaxScrapedNotes),
             error |-> Undefined]

\* The string of n characters c.
Repeat(c, n) == [i \in 1..n |-> c]

MaxMatches == 2

\* Texts of matched elements: short ones, two with the same trimmed text,
\* one of whitespace only and one of 60 characters.
ElementTexts ==
    {<<"a">>, <<" ", "a", Newline>>, <<" ">>, <<"b">>, Repeat("x", 60)}

\* Texts at the length limit: 59 characters between whitespace, and 60.
LimitTexts == <<<<" ">> \o Repeat("y", 59) \o <<Tab>>, Repeat("y", 60)>>

\* More than 20 different short texts, one of them twice.
ManyTexts == [i \in 1..23 |-> Repeat("z", IF i = 5 THEN 1 ELSE i)]

MatchesOf(k, texts, l, more) ==
    [j \in 1..7 |-> IF j = k THEN texts ELSE IF j = l THEN more ELSE <<>>]

\* The matches of the pages: one selector k with any texts up to maxLen, a
\* selector l after it with a few, the others with none.
PageMatches(maxLen) ==
    {MatchesOf(k, texts, l, more) :
        k \in 1..7, l \in 2..7,
        texts \in SeqsUpTo(ElementTexts, maxLen) \cup {LimitTexts, ManyTexts},
        more \in {<<>>, <<<<"c">>>>, <<<<"a">>, <<"d">>>>, <<Repeat("x", 60)>>}}

PriceCandidateTexts == {<<>>, <<"f", "r", "e", "e">>, <<Dollar, "2", "0">>}

\* The pages that differ in what the title, the description and the price
\* are read from.
PageHeads ==
    {[EmptyPage EXCEPT !.ogTitle = og, !.titleText = tt, !.metaDesc = md,
                       !.ogDesc = od, !.offers = of, !.classPrice = cp,
                       !.body = bd, !.responseUrl = ru] :
        og \in {Undefined, <<>>, <<"X">>},
        tt \in {<<>>, <<" ", "Y", " ">>},
        md \in {Undefined, <<"m">>},
        od \in {Undefined, <<"o">>},
        of \in PriceCandidateTexts,
        cp \in PriceCandidateTexts,
        bd \in {<<>>, <<"a", " ", Euro, " ", "3", ",", "0", "0", " ", Dollar, "4">>},
        ru \in {Undefined, <<"r">>}}

FetchOutcomes(maxLen) ==
    {FetchFailure("throws", <<"E", "C", "O", "N", "N">>),
     FetchFailure("parseThrows", <<"b", "a", "d">>),
     FetchFailure("noData", <<>>),
     FetchFailure("nonString", <<>>)}
    \cup {FetchedPage(page) : page \in PageHeads}
    \cup {FetchedPage([EmptyPage EXCEPT !.matches = m]) : m \in PageMatches(maxLen)}

ScrapeInit ==
    /\ scrapeUrl = <<"u">>
    /\ fetched \in FetchOutcomes(MaxMatches)
    /\ scrapeDone = FALSE
    /\ scrapeResult = ScrapeFailed(<<>>, Undefined)
    /\ PriceIdle
    /\ QueryIdle
    /\ NotesIdle
    /\ PipelineIdle

ScrapeBasicCall ==
    /\ ~scrapeDone
    /\ scrapeDone' = TRUE
    /\ scrapeResult' = scrapeBasic(scrapeUrl, fetched)
    /\ UNCHANGED <<scrapeUrl, fetched, priceVars, queryVars, notesVars, pipelineVars>>

ScrapeNext == ScrapeBasicCall

SpecScrape == ScrapeInit /\ [][ScrapeNext]_vars

ScrapedPage == scrapeDone /\ scrapeResult.ok

\* The selectors that match at least one element of the page.
MatchingSelectors == {k \in 1..7 : fetched.page.matches[k] # <<>>}

\* The selectors with a matched element whose trimmed text is not empty and
\* is shorter than 60 characters.
ProductiveSelectors ==
    {k \in 1..7 : PushedNotes(fetched.page.matches[k]) # <<>>}

Lowest(S) == CHOOSE k \in S : \A j \in S : k <= j

\* C9 as stated: the notes of a successful result come only from the first
\* selector, in priority order, that matches at least one element: they are
\* its short trimmed texts, deduplicated and capped at 20, in document order,
\* whatever the length filter leaves of them; notes is empty if none matches.
C9_Original ==
    ScrapedPage =>
        IF MatchingSelectors = {} THEN scrapeResult.notes = <<>>
        ELSE KeepsFirstDistinct(
                scrapeResult.notes,
                PushedNotes(fetched.page.matches[Lowest(MatchingSelectors)]),
                20)

\* C9 amended: the notes come only from the first selector, in priority
\* order, that has a matched element whose trimmed text is not empty and is
\* shorter than 60 characters: they are that selector's such texts,
\* deduplicated and capped at 20, in document order.  The selectors after it
\* contribute nothing, and notes is empty if there is no such selector.
C9_FirstProductiveSelector ==
    ScrapedPage =>
        IF ProductiveSelectors = {} THEN scrapeResult.notes = <<>>
        ELSE KeepsFirstDistinct(
                scrapeResult.notes,
                PushedNotes(fetched.page.matches[Lowest(ProductiveSelectors)]),
                20)

\* A page was scraped whose first matching selector has only texts the
\* filter drops and which has a later selector with a short text.
C9_Witness ==
    /\ ScrapedPage
    /\ MatchingSelectors # {}
    /\ ProductiveSelectors # {}
    /\ Lowest(MatchingSelectors) < Lowest(ProductiveSelectors)
    /\ scrapeResult.notes # <<>>

---------------------------------------------------------------------------
(* The handlers of /api/search and /api/find *)

ProvideScene == "Provide a scene description (min 5 chars)."
ProvideNotes == "Provide notes {top, middle, base}."
MissingCredentials == "Missing GOOGLE_API_KEY or GOOGLE_CSE_CX in environment."
ModelCallError == "model call failed"
NotesTypeError == "TypeError"
SearchCallError == "search call failed"
ScrapeRejected == "scrape rejected"

\* res.status(code).json({ error })
ErrorResponse(code, message) == [NoResponse EXCEPT !.status = code, !.error = message]

\* res.json({ query, suggestions }) and res.json({ notes, query, suggestions })
SuggestionResponse(withNotes, notes, query, suggestions) ==
    [status |-> 200, error |-> "", hasNotes |-> withNotes,
     notes |-> IF withNotes THEN notes ELSE EmptyNotes,
     hasQuery |-> TRUE, query |-> query,
     hasSuggestions |-> TRUE, suggestions |-> suggestions]

\* Sending a response ends the handler.
Respond(resp) ==
    /\ response' = resp
    /\ responses' = responses + 1
    /\ pc' = "done"

\* Line 156 with && in place of ||.
BothCredentialsMissing(key, cx) == ~key /\ ~cx

\* Line 156: !GOOGLE_API_KEY || !GOOGLE_CSE_CX
CredentialsMissing(key, cx) == ~key \/ ~cx

\* Lines 211-212 and 241-242: the query is built and googleSearch called,
\* which raises at line 157 or issues its request at line 160.
SearchStage(notes) ==
    /\ hNotes' = notes
    /\ hQuery' = buildPerfumeQueryFromNotes(notes)
    /\ searchCalled' = searchCalled + 1
    /\ IF CredentialsMissing(apiKey, cseCx)
       THEN /\ searchOutcome' = "threw"
            /\ Respond(ErrorResponse(500, MissingCredentials))
            /\ UNCHANGED searchRequests
       ELSE /\ searchOutcome' = "pending"
            /\ searchRequests' = searchRequests + 1
            /\ pc' = "awaitSearch"
            /\ UNCHANGED <<response, responses>>

\* Lines 204-212: /api/search up to its first await.
HandleSearchRequest ==
    /\ pc = "start" /\ route = "search"
    /\ IF ~reqOk
       THEN /\ Respond(ErrorResponse(400, ProvideNotes))
            /\ UNCHANGED <<hNotes, hQuery, searchCalled, searchRequests,
                           searchOutcome>>
       ELSE SearchStage(reqNotes)
    /\ UNCHANGED <<results, scrapes, modelCalls, modelOutcome, scrapeLog,
                   outOfOrder, requestVars, functionVars>>

\* Lines 234-240 and 116: /api/find up to its first await, the model call.
HandleFindRequest ==
    /\ pc = "start" /\ route = "find"
    /\ IF ~reqOk
       THEN /\ Respond(ErrorResponse(400, ProvideScene))
            /\ UNCHANGED <<modelCalls, modelOutcome>>
       ELSE /\ modelCalls' = modelCalls + 1
            /\ modelOutcome' = "pending"
            /\ pc' = "awaitModel"
            /\ UNCHANGED <<response, responses>>
    /\ UNCHANGED <<hNotes, hQuery, results, scrapes, searchCalled,
                   searchRequests, searchOutcome, scrapeLog, outOfOrder,
                   requestVars, functionVars>>

\* The model call fails, and after it the handler goes on to the search
\* with no notes.
ModelCallFailsThenSearches ==
    /\ pc = "awaitModel"
    /\ modelOutcome' = "failed"
    /\ SearchStage(EmptyNotes)
    /\ UNCHANGED <<results, scrapes, modelCalls, scrapeLog, outOfOrder,
                   requestVars, functionVars>>

\* Lines 116 and 253-256: the model call fails; the handler's catch block
\* answers with the error.
ModelCallFails ==
    /\ pc = "awaitModel"
    /\ modelOutcome' = "failed"
    /\ Respond(ErrorResponse(500, ModelCallError))
    /\ UNCHANGED <<hNotes, hQuery, results, scrapes, modelCalls, searchCalled,
                   searchRequests, searchOutcome, scrapeLog, outOfOrder,
                   requestVars, functionVars>>

\* The replies of the model in the pipeline: a JSON object of notes, the
\* JSON value null, and a text that is no JSON.
PipelineReplies ==
    {JsonReply("jsonBlock", "object",
               ParsedObject(JStrings(<<<<"R", "o", "s", "e">>, <<"r", "o", "s", "e">>>>),
                            JVal("undefined"),
                            JStrings(<<<<"m", "u", "s", "k">>>>))),
     JsonReply("jsonWhole", "null", ParsedInitial),
     TextReply(<<"n", "o", "n", "e">>)}

\* Lines 116-152 and 240-242: the model call returns reply r; the notes are
\* parsed, which may raise, and the search stage follows.
ModelCallReturns(r) ==
    /\ modelOutcome' = "ok"
    /\ IF ollamaNotesFromScene(r).raised
       THEN /\ Respond(ErrorResponse(500, NotesTypeError))
            /\ UNCHANGED <<hNotes, hQuery, searchCalled, searchRequests,
                           searchOutcome>>
       ELSE SearchStage(ollamaNotesFromScene(r).notes)
    /\ UNCHANGED <<results, scrapes, modelCalls, scrapeLog, outOfOrder,
                   requestVars, functionVars>>

ModelReplies ==
    /\ pc = "awaitModel"
    /\ \E r \in PipelineReplies : ModelCallReturns(r)

\* Lines 160-170 and the catch block: the search request fails.
SearchFails ==
    /\ pc = "awaitSearch"
    /\ searchOutcome' = "failed"
    /\ Respond(ErrorResponse(500, SearchCallError))
    /\ UNCHANGED <<hNotes, hQuery, results, scrapes, modelCalls, modelOutcome,
                   searchCalled, searchRequests, scrapeLog, outOfOrder,
                   requestVars, functionVars>>

\* An item of the search service's answer.
SearchItem(title, link, snippet) ==
    [title |-> title, link |-> link, snippet |-> snippet, displayLink |-> <<"s">>]

\* Lines 171-175: (data.items || []).map(it => ({ title, link, snippet }))
SearchResults(data) ==
    IF ~data.hasItems THEN <<>>
    ELSE [i \in 1..Len(data.items) |->
            [title |-> data.items[i].title,
             link |-> data.items[i].link,
             snippet |-> data.items[i].snippet]]

\* A promise of scrapeBasic: pending, with what its fetch will come to once
\* it settles.
PendingScrape == [state |-> "pending", fetch |-> FetchFailure("noData", <<>>),
                  value |-> ScrapeFailed(<<>>, Undefined)]

\* Lines 171-176 and 215 (243): the search returns; scrapeBasic is called
\* for each result in turn, each call running up to its await.
SearchReturnsData(data) ==
    /\ searchOutcome' = "ok"
    /\ results' = SearchResults(data)
    /\ scrapes' = [i \in 1..Len(SearchResults(data)) |-> PendingScrape]
    /\ scrapeLog' = scrapeLog \o
                     [i \in 1..Len(SearchResults(data)) |-> SearchResults(data)[i].link]
    /\ pc' = "awaitScrapes"
    /\ UNCHANGED <<hNotes, hQuery, response, responses, modelCalls,
                   modelOutcome, searchCalled, searchRequests, outOfOrder,
                   requestVars, functionVars>>

MaxResults == 3

SearchItems ==
    {SearchItem(<<"A">>, <<"u", "1">>, <<"x">>),
     SearchItem(<<"B">>, <<"u", "2">>, <<"y">>)}

SearchAnswers(maxLen) ==
    {[hasItems |-> FALSE, items |-> <<>>]}
    \cup {[hasItems |-> TRUE, items |-> items] : items \in SeqsUpTo(SearchItems, maxLen)}

SearchReturns ==
    /\ pc = "awaitSearch"
    /\ \E data \in SearchAnswers(MaxResults) : SearchReturnsData(data)

\* scrapeBasic without its try and catch: the promise rejects when the
\* fetch or the parse raises.
ScrapePromiseUncaught(url, f) ==
    [state |-> IF f.kind \in {"throws", "parseThrows"} THEN "rejected" ELSE "fulfilled",
     fetch |-> f,
     value |-> scrapeBasic(url, f)]

\* Lines 44-101: the promise of the async function scrapeBasic fulfils with
\* the value returned, the catch block returning one for every exception.
ScrapePromise(url, f) ==
    [state |-> "fulfilled", fetch |-> f, value |-> scrapeBasic(url, f)]

\* What the fetches of the pipeline come to.
PipelineFetches ==
    {FetchFailure("throws", <<"t", "i", "m", "e", "o", "u", "t">>),
     FetchFailure("parseThrows", <<"b", "a", "d">>),
     FetchFailure("noData", <<>>),
     FetchFailure("nonString", <<>>),
     FetchedPage(EmptyPage),
     FetchedPage([EmptyPage EXCEPT
                    !.ogTitle = <<"T">>,
                    !.classPrice = <<Euro, " ", "9", ",", "9", "9">>,
                    !.matches = MatchesOf(3, <<<<"r", "o", "s", "e">>>>, 3, <<>>)])}

\* The scrape of result i settles.  Nothing cancels a scrape, so it may
\* settle after the handler has answered.
ScrapeSettlesWith(i, f) ==
    /\ scrapes' = [scrapes EXCEPT ![i] = ScrapePromise(results[i].link, f)]
    /\ outOfOrder' = (outOfOrder \/ \E j \in 1..(i - 1) : scrapes[j].state = "pending")
    /\ UNCHANGED <<pc, hNotes, hQuery, results, response, responses, modelCalls,
                   modelOutcome, searchCalled, searchRequests, searchOutcome,
                   scrapeLog, requestVars, functionVars>>

ScrapeSettles ==
    /\ pc \in {"awaitScrapes", "done"}
    /\ \E i \in 1..Len(scrapes) :
          /\ scrapes[i].state = "pending"
          /\ \E f \in PipelineFetches : ScrapeSettlesWith(i, f)

\* a || null
OrNull(a) == IF a \in {Undefined, Null, <<>>} THEN Null ELSE a

\* The suggestion of result r and scrape result sc.
Suggestion(r, sc) ==
    [title |-> r.title,
     url |-> r.link,
     snippet |-> r.snippet,
     price |-> OrNull(sc.price),
     sourceTitle |-> OrNull(sc.title),
     notes |-> IF sc.notes = UndefinedArray THEN <<>> ELSE sc.notes]

IsOkScrape(sc) == sc.ok

\* The suggestions assembled from the scrapes that succeeded only, so that
\* a failed scrape shifts the later ones.
AssembleSkippingFailed(res, scraped) ==
    LET good == SelectSeq(scraped, IsOkScrape)
    IN [i \in 1..Len(res) |->
          Suggestion(res[i], IF i <= Len(good) THEN good[i]
                             ELSE ScrapeFailed(<<>>, Undefined))]

\* Lines 218-225 and 245-252: results.map((r, i) => ...)
Assemble(res, scraped) ==
    [i \in 1..Len(res) |-> Suggestion(res[i], scraped[i])]

\* Lines 215-227 and 243-252: Promise.all settles, rejected once one of the
\* promises is rejected and fulfilled, with the values in the order of the
\* promises, once all are fulfilled; the handler answers.
ScrapesJoined ==
    /\ pc = "awaitScrapes"
    /\ \/ \E i \in 1..Len(scrapes) : scrapes[i].state = "rejected"
       \/ \A i \in 1..Len(scrapes) : scrapes[i].state = "fulfilled"
    /\ IF \E i \in 1..Len(scrapes) : scrapes[i].state = "rejected"
       THEN Respond(ErrorResponse(500, ScrapeRejected))
       ELSE Respond(SuggestionResponse(
                route = "find", hNotes, hQuery,
                Assemble(results, [i \in 1..Len(scrapes) |-> scrapes[i].value])))
    /\ UNCHANGED <<hNotes, hQuery, results, scrapes, modelCalls, modelOutcome,
                   searchCalled, searchRequests, searchOutcome, scrapeLog,
                   outOfOrder, requestVars, functionVars>>

\* Note sets a request to /api/search carries.
RequestNotes ==
    {EmptyNotes,
     [top |-> <<<<"r", "o", "s", "e">>>>, middle |-> <<>>,
      base |-> <<<<"m", "u", "s", "k">>>>]}

PipelineInit ==
    /\ route \in {"search", "find"}
    /\ reqOk \in BOOLEAN
    /\ reqNotes \in RequestNotes
    /\ apiKey \in BOOLEAN
    /\ cseCx \in BOOLEAN
    /\ pc = "start" /\ hNotes = EmptyNotes /\ hQuery = <<>>
    /\ results = <<>> /\ scrapes = <<>>
    /\ response = NoResponse /\ responses = 0
    /\ modelCalls = 0 /\ modelOutcome = "none"
    /\ searchCalled = 0 /\ searchRequests = 0 /\ searchOutcome = "none"
    /\ scrapeLog = <<>> /\ outOfOrder = FALSE
    /\ PriceIdle /\ QueryIdle /\ NotesIdle /\ ScrapeIdle

PipelineNext ==
    \/ HandleSearchRequest
    \/ HandleFindRequest
    \/ ModelCallFails
    \/ ModelReplies
    \/ SearchFails
    \/ SearchReturns
    \/ ScrapeSettles
    \/ ScrapesJoined

SpecPipeline == PipelineInit /\ [][PipelineNext]_vars

\* Suggestion sg carries the title, link and snippet of result r.
CarriesResult(sg, r) ==
    sg.title = r.title /\ sg.url = r.link /\ sg.snippet = r.snippet

\* C1 as stated: the suggestion list has as many entries as there are
\* search results, and entry i merges result i with the scrape of result i:
\* price, notes and sourceTitle are those of scrape i when it succeeded;
\* price and sourceTitle are absent and notes is empty when it failed.
C1_Original ==
    response.hasSuggestions =>
        /\ Len(response.suggestions) = Len(results)
        /\ \A i \in 1..Len(results) :
              LET sg == response.suggestions[i]
                  sc == scrapes[i].value
              IN /\ CarriesResult(sg, results[i])
                 /\ IF sc.ok
                    THEN sg.price = sc.price /\ sg.notes = sc.notes
                         /\ sg.sourceTitle = sc.title
                    ELSE sg.price = Null /\ sg.notes = <<>>
                         /\ sg.sourceTitle = Null

\* C1 amended: as stated, but sourceTitle is the title of scrape i only
\* when that title is not empty; it is absent when the scraped page has an
\* empty title, as when the scrape failed.
C1_SuggestionsPairedByIndex ==
    response.hasSuggestions =>
        /\ Len(response.suggestions) = Len(results)
        /\ \A i \in 1..Len(results) :
              LET sg == response.suggestions[i]
                  sc == scrapes[i].value
              IN /\ CarriesResult(sg, results[i])
                 /\ IF sc.ok
                    THEN /\ sg.price = sc.price /\ sg.notes = sc.notes
                         /\ sg.sourceTitle =
                               IF sc.title = <<>> THEN Null ELSE sc.title
                    ELSE sg.price = Null /\ sg.notes = <<>>
                         /\ sg.sourceTitle = Null

\* Suggestions were sent for three results whose scrapes settled out of
\* order, a failed scrape before a successful one with a title and a price.
C1_Witness ==
    /\ response.hasSuggestions
    /\ Len(results) >= 3
    /\ outOfOrder
    /\ \E i, j \in 1..Len(results) :
          /\ i < j
          /\ ~scrapes[i].value.ok
          /\ scrapes[j].value.ok
          /\ scrapes[j].value.title # <<>>
          /\ scrapes[j].value.price # Null

\* C2: a scrape promise is never rejected: it is fulfilled with ok = false
\* for a fetch error, a timeout, an absent or non-text body and a parse
\* exception, and with ok = true otherwise.  So once the search has
\* returned, the answer is sent only when every scrape has settled, and it
\* is the suggestion list, one entry per result, never an error.
C2_ScrapeFailuresAbsorbed ==
    /\ \A i \in 1..Len(scrapes) :
          /\ scrapes[i].state # "rejected"
          /\ scrapes[i].state = "fulfilled" =>
                (scrapes[i].value.ok <=> scrapes[i].fetch.kind = "html")
    /\ (searchOutcome = "ok" /\ responses > 0) =>
          /\ response.status = 200
          /\ response.hasSuggestions
          /\ Len(response.suggestions) = Len(results)
          /\ \A i \in 1..Len(scrapes) : scrapes[i].state = "fulfilled"

\* Suggestions were sent although every scrape failed, in different ways.
C2_Witness ==
    /\ response.status = 200
    /\ Len(scrapes) >= 2
    /\ \A i \in 1..Len(scrapes) : ~scrapes[i].value.ok
    /\ \E i, j \in 1..Len(scrapes) :
          /\ scrapes[i].fetch.kind = "throws"
          /\ scrapes[j].fetch.kind \in {"noData", "nonString", "parseThrows"}

\* C7: with a search credential missing, googleSearch raises its
\* configuration error before any request: no search request and no scrape
\* is issued in the invocation, and the caller receives an error, not a
\* suggestion list.
C7_NoSearchWithoutCredentials ==
    (~apiKey \/ ~cseCx) =>
        /\ searchRequests = 0
        /\ scrapeLog = <<>>
        /\ scrapes = <<>>
        /\ searchCalled > 0 =>
              /\ searchOutcome = "threw"
              /\ pc = "done"
              /\ response = ErrorResponse(500, MissingCredentials)
        /\ pc = "done" =>
              /\ response.status \in {400, 500}
              /\ ~response.hasSuggestions

\* /api/find reached googleSearch with only the API key missing.
C7_Witness ==
    /\ ~apiKey /\ cseCx
    /\ route = "find"
    /\ searchCalled = 1
    /\ pc = "done"

IsBareError(resp) ==
    /\ resp.status = 500
    /\ ~resp.hasNotes /\ ~resp.hasQuery /\ ~resp.hasSuggestions

\* C10: in /api/find each stage is attempted at most once and in sequence:
\* the search only after the model call succeeded, the scrapes only after
\* the search returned and exactly one per result link, the suggestions only
\* after all scrapes.  When the model call or the search fails, no later
\* stage is issued and the caller receives exactly one error response,
\* without notes or suggestions.
C10_StagesInSequence ==
    route = "find" =>
        /\ modelCalls <= 1 /\ searchCalled <= 1 /\ searchRequests <= 1
        /\ responses <= 1
        /\ (pc = "done") <=> (responses = 1)
        /\ searchCalled > 0 => modelOutcome = "ok"
        /\ searchRequests > 0 => modelOutcome = "ok"
        /\ IF searchOutcome = "ok"
           THEN /\ Len(scrapes) = Len(results)
                /\ scrapeLog = [i \in 1..Len(results) |-> results[i].link]
           ELSE scrapeLog = <<>> /\ scrapes = <<>>
        /\ response.status = 200 =>
              /\ searchOutcome = "ok"
              /\ \A i \in 1..Len(scrapes) : scrapes[i].state = "fulfilled"
        /\ modelOutcome = "failed" =>
              /\ searchCalled = 0 /\ searchRequests = 0
              /\ responses = 1 /\ IsBareError(response)
        /\ searchOutcome = "failed" =>
              /\ responses = 1 /\ IsBareError(response)

\* /api/find answered with notes and suggestions for two or more results.
C10_Witness ==
    /\ route = "find"
    /\ response.status = 200
    /\ response.hasNotes
    /\ Len(results) >= 2
    /\ modelCalls = 1 /\ searchRequests = 1

===========================================================================
